---- MODULE Spec2Model ----
(***************************************************************************)
(* yt-dlp-s3: index.mjs streams the videos of a playlist from a yt-dlp     *)
(* child process into an S3 bucket, one video after the other.             *)
(*                                                                         *)
(* Strings are sequences of characters.  A character of ASCII is the       *)
(* one-character string; a character outside ASCII is the name of its code *)
(* point, "U+" and its four to six hexadecimal digits in upper case, as    *)
(* "U+00E9" for e acute; so is the grave accent, "U+0060", which no string *)
(* of a module can hold.  The JavaScript value undefined is the            *)
(* one-element sequence <<"undefined">>, which no string of characters     *)
(* equals.                                                                 *)
(***************************************************************************)
EXTENDS Integers, Sequences, FiniteSets, TLC

\* ------------------------------------------------------------- bounds
\* The longest playlist the extraction tool lists.
MaxItems == 2
\* The number of consecutive runs of the program over the same source.
MaxRuns == 2
\* The number of SIGINT deliveries the environment makes in one run.
MaxSigints == 3
\* The number of SIGINTs that wait for the event loop at one time.
MaxPending == 1
\* The longest listing of object versions the cleanup script is given.
MaxObjects == 2

\* ------------------------------------------------------ JavaScript strings
Undefined == <<"undefined">>

\* String(undefined) is the text "undefined"; a string is itself.
toJsString(v) ==
  IF v = Undefined THEN <<"u", "n", "d", "e", "f", "i", "n", "e", "d">> ELSE v

\* The white space and line terminators of JavaScript, which trim and
\* parseInt strip: tab, line feed, vertical tab, form feed, carriage return,
\* space, and outside ASCII the no-break space, the Ogham space mark, the
\* spaces of U+2000 to U+200A, the line and paragraph separators, the narrow
\* no-break space, the medium mathematical space, the ideographic space and
\* the byte order mark.
WhiteSpace ==
  { "\t", "\n", "", "\f", "\r", " ",
    "U+00A0", "U+1680",
    "U+2000", "U+2001", "U+2002", "U+2003", "U+2004", "U+2005",
    "U+2006", "U+2007", "U+2008", "U+2009", "U+200A",
    "U+2028", "U+2029", "U+202F", "U+205F", "U+3000", "U+FEFF" }

RECURSIVE trimStart(_)
trimStart(s) ==
  IF s # <<>> /\ Head(s) \in WhiteSpace THEN trimStart(Tail(s)) ELSE s

RECURSIVE trimEnd(_)
trimEnd(s) ==
  IF s # <<>> /\ s[Len(s)] \in WhiteSpace
  THEN trimEnd(SubSeq(s, 1, Len(s) - 1))
  ELSE s

\* String.prototype.trim
trim(s) == trimEnd(trimStart(s))

\* String.prototype.split with a one-character separator: the empty string
\* splits into one empty piece.
split(s, sep) ==
  LET seps == {p \in 1..Len(s) : s[p] = sep}
      \* The position of the j-th separator, 0 and Len(s) + 1 standing for
      \* the two ends of s.
      at(j) == IF j = 0 THEN 0
               ELSE IF j > Cardinality(seps) THEN Len(s) + 1
               ELSE CHOOSE p \in seps : Cardinality({q \in seps : q < p}) = j - 1
  IN [j \in 1..(Cardinality(seps) + 1) |-> SubSeq(s, at(j - 1) + 1, at(j) - 1)]

\* String.prototype.startsWith, the argument converted to a string.
startsWith(key, v) ==
  LET s == toJsString(v)
  IN Len(s) <= Len(key) /\ SubSeq(key, 1, Len(s)) = s

\* String.prototype.includes, the argument converted to a string.
includes(key, v) ==
  LET s == toJsString(v)
  IN \E p \in 1..(Len(key) - Len(s) + 1) : SubSeq(key, p, p + Len(s) - 1) = s

Digits == <<"0", "1", "2", "3", "4", "5", "6", "7", "8", "9">>

IsDigit(c) == \E d \in 1..Len(Digits) : Digits[d] = c

DigitValue(c) == (CHOOSE d \in 1..Len(Digits) : Digits[d] = c) - 1

\* The value of the leading run of digits of s, after acc.
RECURSIVE LeadingDigits(_, _)
LeadingDigits(s, acc) ==
  IF s # <<>> /\ IsDigit(Head(s))
  THEN LeadingDigits(Tail(s), acc * 10 + DigitValue(Head(s)))
  ELSE acc

\* Number.parseInt(v, 10): leading white space, an optional sign, then the
\* leading digits; NaN when there is no digit.
parseInt(v) ==
  LET s == trimStart(toJsString(v))
      signed == s # <<>> /\ Head(s) \in {"+", "-"}
      body == IF signed THEN Tail(s) ELSE s
      magnitude == LeadingDigits(body, 0)
  IN IF body = <<>> \/ ~IsDigit(Head(body))
     THEN [nan |-> TRUE, val |-> 0]
     ELSE [nan |-> FALSE,
           val |-> IF signed /\ Head(s) = "-" THEN 0 - magnitude ELSE magnitude]

\* ---------------------------------------------------------- pure functions
\* isObjectInBucket: some key of the listing starts with or includes the
\* given key.
isObjectInBucket_exact(bucketObjectKeys, s3ObjectKey) ==
  \E key \in bucketObjectKeys : key = toJsString(s3ObjectKey)

isObjectInBucket_prefix(bucketObjectKeys, s3ObjectKey) ==
  \E key \in bucketObjectKeys : startsWith(key, s3ObjectKey)

isObjectInBucket(bucketObjectKeys, s3ObjectKey) ==
  \E key \in bucketObjectKeys :
    startsWith(key, s3ObjectKey) \/ includes(key, s3ObjectKey)

\* getPlaylistUrls, the parsing of the listing's output: two lines per video,
\* the URL then the file name; a missing second line leaves title undefined.
\* The lines are split once and the result is built from that value.
getPlaylistUrls(output) ==
  CHOOSE result \in
    { LET n == (Len(lines) + 1) \div 2
      IN [j \in 1..n |->
            [title |-> IF 2 * j <= Len(lines) THEN lines[2 * j] ELSE Undefined,
             videoUrl |-> lines[2 * j - 1]]] :
      lines \in {split(trim(output), "\n")} } : TRUE

\* getMetadata, the parsing of the probe's output "ext,filesize".  The
\* output is split once and the result is built from that value.
getMetadata(output) ==
  CHOOSE result \in
    { LET ext == parts[1]
          filesizeStr == IF Len(parts) >= 2 THEN parts[2] ELSE Undefined
          filesize == parseInt(filesizeStr)
      IN [extension |-> trim(ext),
          filesize |-> IF filesize.nan \/ filesize.val < 0 THEN 0 ELSE filesize.val] :
      parts \in {split(trim(output), ",")} } : TRUE

s3ObjectKey_noExt(title, metadata) == toJsString(title)

\* The object key of a video: `${title}.${metadata.extension}`.
s3ObjectKey(title, metadata) == toJsString(title) \o <<".">> \o metadata.extension

\* ------------------------------------------------------------ environment
\* The videos the extraction tool knows: the URL and the file name it lists,
\* the extension of its format, the line its metadata probe prints, and the
\* chunks of bytes in which its stream is written.
Entries ==
  { [url |-> <<"x">>, name |-> <<"a">>, ext |-> <<"m">>,
     meta |-> <<"m", ",", "7", "\n">>, chunks |-> <<3, 4>>],
    [url |-> <<"y">>, name |-> <<"a", "b">>, ext |-> <<"w">>,
     meta |-> <<"w", ",", "N", "A", "\n">>, chunks |-> <<4>>] }

Sources == UNION {[1..n -> Entries] : n \in 0..MaxItems}

\* What the listing prints for a playlist: per video, the URL on one line and
\* the file name on the next.
RECURSIVE Render(_)
Render(src) ==
  IF src = <<>> THEN <<>>
  ELSE Head(src).url \o <<"\n">> \o Head(src).name \o <<"\n">> \o Render(Tail(src))

\* The outputs of the listing: a playlist's own, and the ones with a trailing
\* line that has no partner.
ListingOutputs ==
  {Render(src) : src \in Sources}
    \cup {Render(src) \o <<"z", "\n">> : src \in {t \in Sources : Len(t) <= 1}}

\* The lines the metadata probe can print for a URL; none for a URL the tool
\* does not know, on which it fails.
ProbeOutputs(url) == {e.meta : e \in {d \in Entries : d.url = url}}

\* The chunks in which a child writes the stream of a URL.
StreamChunks(url) == {e.chunks : e \in {d \in Entries : d.url = url}}

RECURSIVE Sum(_)
Sum(seq) == IF seq = <<>> THEN 0 ELSE Head(seq) + Sum(Tail(seq))

\* The buckets a run can start from.
InitialStores ==
  { {},
    {[key |-> <<"a", ".", "m">>, size |-> 5, truncated |-> FALSE]},
    {[key |-> <<"d", "/", "a", "b">>, size |-> 5, truncated |-> FALSE]} }

Options ==
  [createBucket : BOOLEAN, checkFullKey : BOOLEAN, reuploadOnSizeDiff : BOOLEAN]

\* ------------------------------------------------------------------ state
VARIABLES
  argv,              \* the options of the command line
  listing,           \* what the listing of the source prints
  bucketPresent,     \* the store: whether the bucket exists
  store,             \* the store: the objects of the bucket
  run,               \* the number of this run of the program
  pc,                \* where main() is suspended
  exited,            \* the process has terminated
  exitCode,          \* the exit code, once exited
  fatal,             \* why the process ended, when not by finishing
  isShuttingDown,    \* the flag of the SIGINT handler
  bucketObjectKeys,  \* the keys getBucketObjectKeys returned
  urls,              \* the videos getPlaylistUrls returned
  i,                 \* the loop index, from 1
  metadata,          \* per video, what getMetadata returned
  child,             \* per video, its streaming yt-dlp process
  upload,            \* per video, its putObject call
  reports,           \* per video, the outcomes printed for it, in order
  calls,             \* per video, the stages started for it
  storeCalls,        \* the calls made to the object store in this run
  sigints,           \* the SIGINTs delivered in this run
  pending,           \* the SIGINTs delivered whose handler has not run yet
  intAt,             \* the video in transfer when the flag was set, or 0
  flagAt,            \* where main() was when the first SIGINT was delivered
  prev,              \* how the run before this one ended
  enumeration,       \* how the listing of this run ended
  cleanup            \* the run of delete-duplicate-extension.mjs

envVars == <<argv, listing, bucketPresent, store>>
procVars == <<pc, exited, exitCode, fatal>>
loopVars == <<bucketObjectKeys, urls, i, metadata>>
xferVars == <<child, upload>>
histVars == <<run, reports, calls, storeCalls, prev, enumeration>>
sigVars == <<isShuttingDown, sigints, pending, intAt, flagAt>>
vars == <<envVars, procVars, loopVars, xferVars, histVars, sigVars, cleanup>>

NoChild ==
  [st |-> "none", code |-> 0, written |-> 0, full |-> FALSE,
   sent |-> <<>>, received |-> <<>>, listeners |-> {}]
NoCalls == [reconcile |-> 0, probe |-> 0, spawn |-> 0, put |-> 0]
NoStoreCalls == [bucketExists |-> 0, makeBucket |-> 0, listObjects |-> 0, putObject |-> 0]
NoMetadata == [extension |-> <<>>, filesize |-> 0]
NoFlag == [pc |-> "none", i |-> 0]
\* The cleanup script is not run.
CleanupOff == [pc |-> "off"]
\* The upload program is not run.
MainOff == "off"

Init ==
  /\ argv \in Options
  /\ listing \in ListingOutputs
  /\ bucketPresent \in BOOLEAN
  /\ store \in InitialStores
  /\ run = 1
  /\ pc = "parse"
  /\ exited = FALSE
  /\ exitCode = 0
  /\ fatal = "none"
  /\ isShuttingDown = FALSE
  /\ bucketObjectKeys = {}
  /\ urls = <<>>
  /\ i = 1
  /\ metadata = <<>>
  /\ child = <<>>
  /\ upload = <<>>
  /\ reports = <<>>
  /\ calls = <<>>
  /\ storeCalls = NoStoreCalls
  /\ sigints = 0
  /\ pending = 0
  /\ intAt = 0
  /\ flagAt = NoFlag
  /\ prev = [ran |-> FALSE, clean |-> FALSE, uploaded |-> FALSE]
  /\ enumeration = "none"
  /\ cleanup = CleanupOff

Running == ~exited

\* A child process that has not terminated; a signalled child is one that
\* was sent SIGTERM and is still there.
Alive(k) == child[k].st \in {"running", "ended", "signalled"}

\* process.exit(code)
Exit(code, why) ==
  /\ exited' = TRUE
  /\ exitCode' = code
  /\ fatal' = why

\* ---------------------------------------------------------------- startup
\* The options the program declares are url, bucket, access-key, secret-key,
\* endpoint, ssl, create-bucket and ytdlp-path; the option parser ends the
\* process with code 1 on any other.
UnknownOption(opts) == opts.checkFullKey \/ opts.reuploadOnSizeDiff

\* The imports are loaded and the module is evaluated: the SIGINT handler is
\* installed and main() is called, which begins with
\* program.parse(process.argv).
ParseArgs ==
  /\ Running /\ pc = "parse"
  /\ IF UnknownOption(argv)
     THEN Exit(1, "unknownOption") /\ pc' = pc
     ELSE pc' = "validate" /\ UNCHANGED <<exited, exitCode, fatal>>
  /\ UNCHANGED <<envVars, loopVars, xferVars, histVars, sigVars, cleanup>>

\* validateYtDlpPath: which() finds the tool, and initializeMinioClient
\* calls bucketExists in the same turn; or which() throws and main().catch
\* exits with code 1.
ValidateYtDlpPath ==
  /\ Running /\ pc = "validate"
  /\ \E found \in BOOLEAN :
       IF found
       THEN /\ pc' = "bucketExists"
            /\ storeCalls' = [storeCalls EXCEPT !.bucketExists = @ + 1]
            /\ UNCHANGED <<exited, exitCode, fatal>>
       ELSE Exit(1, "ytdlpNotFound") /\ pc' = pc /\ UNCHANGED storeCalls
  /\ UNCHANGED <<envVars, loopVars, xferVars, run, reports, calls, prev, enumeration,
                 sigVars, cleanup>>

\* initializeMinioClient from the answer of bucketExists: makeBucket is
\* called on request, or the absence of the bucket is thrown, or the client is
\* returned and getBucketObjectKeys calls listObjectsV2 in the same turn.
ShouldCreateBucket_always(exists, opts) == opts.createBucket

\* `if (!bucketExists && createBucket)`
ShouldCreateBucket(exists, opts) == ~exists /\ opts.createBucket

BucketExists ==
  /\ Running /\ pc = "bucketExists"
  /\ \E ok \in BOOLEAN :
       IF ~ok
       THEN /\ Exit(1, "storeUnavailable") /\ pc' = pc
            /\ UNCHANGED storeCalls
       ELSE IF ShouldCreateBucket(bucketPresent, argv)
       THEN /\ pc' = "makeBucket"
            /\ storeCalls' = [storeCalls EXCEPT !.makeBucket = @ + 1]
            /\ UNCHANGED <<exited, exitCode, fatal>>
       ELSE IF ~bucketPresent
       THEN /\ Exit(1, "bucketMissing") /\ pc' = pc
            /\ UNCHANGED storeCalls
       ELSE /\ pc' = "listObjects"
            /\ storeCalls' = [storeCalls EXCEPT !.listObjects = @ + 1]
            /\ UNCHANGED <<exited, exitCode, fatal>>
  /\ UNCHANGED <<envVars, loopVars, xferVars, run, reports, calls, prev, enumeration, sigVars, cleanup>>

\* initializeMinioClient, makeBucket answers: the client is returned and
\* getBucketObjectKeys calls listObjectsV2 in the same turn.
MakeBucket ==
  /\ Running /\ pc = "makeBucket"
  /\ \E ok \in BOOLEAN :
       IF ok
       THEN /\ bucketPresent' = TRUE /\ pc' = "listObjects"
            /\ storeCalls' = [storeCalls EXCEPT !.listObjects = @ + 1]
            /\ UNCHANGED <<exited, exitCode, fatal>>
       ELSE /\ Exit(1, "storeUnavailable") /\ pc' = pc
            /\ UNCHANGED <<bucketPresent, storeCalls>>
  /\ UNCHANGED <<argv, listing, store, loopVars, xferVars, run, reports, calls, prev,
                 enumeration, sigVars, cleanup>>

\* getBucketObjectKeys, the listing it called ends: the names of all the
\* objects of the bucket, as a set.
GetBucketObjectKeys ==
  /\ Running /\ pc = "listObjects"
  /\ UNCHANGED storeCalls
  /\ \E ok \in BOOLEAN :
       IF ok
       THEN /\ bucketObjectKeys' = {o.key : o \in store}
            /\ pc' = "enumerate"
            /\ UNCHANGED <<exited, exitCode, fatal>>
       ELSE /\ Exit(1, "storeUnavailable") /\ pc' = pc
            /\ UNCHANGED bucketObjectKeys
  /\ UNCHANGED <<envVars, urls, i, metadata, xferVars, run, reports, calls, prev, enumeration,
                 sigVars, cleanup>>

\* getPlaylistUrls and the check that follows it in main: a failing listing
\* is caught and gives no video, and no video ends the process with code 0.
\* A listing that cannot be spawned emits 'error', for which executeCommand
\* has no listener: the exception is uncaught and the process ends with
\* code 1.
EnumerateItems(code) ==
  IF code = 0 THEN getPlaylistUrls(listing) ELSE <<>>

GetPlaylistUrls ==
  /\ Running /\ pc = "enumerate"
  /\ \/ \E code \in {0, 1} :
          \E found \in {EnumerateItems(code)} :
             /\ enumeration' = (IF code = 0 THEN "listed" ELSE "failed")
             /\ IF Len(found) = 0
                THEN /\ Exit(0, "noVideos") /\ pc' = pc
                     /\ UNCHANGED <<urls, i, metadata, child, upload, reports, calls>>
                ELSE /\ urls' = found
                     /\ i' = 1
                     /\ pc' = "loop"
                     /\ metadata' = [k \in DOMAIN found |-> NoMetadata]
                     /\ child' = [k \in DOMAIN found |-> NoChild]
                     /\ upload' = [k \in DOMAIN found |-> "none"]
                     /\ reports' = [k \in DOMAIN found |-> <<>>]
                     /\ calls' = [k \in DOMAIN found |-> NoCalls]
                     /\ UNCHANGED <<exited, exitCode, fatal>>
     \/ /\ enumeration' = "spawnError"
        /\ Exit(1, "uncaughtError") /\ pc' = pc
        /\ UNCHANGED <<urls, i, metadata, child, upload, reports, calls>>
  /\ UNCHANGED <<envVars, bucketObjectKeys, run, storeCalls, prev, sigVars, cleanup>>

\* ---------------------------------------------------------------- the loop
\* `if (isShuttingDown) break`, at the head of an iteration.
LoopBreaks == isShuttingDown

NextIndex_stuck(k) == k

\* `i++` of the for loop.
NextIndex(k) == k + 1

LoopHead_resetsFlag ==
  /\ Running /\ pc = "loop"
  /\ IF i > Len(urls) \/ LoopBreaks
     THEN pc' = "done" /\ isShuttingDown' = FALSE /\ UNCHANGED calls
     ELSE /\ pc' = "exists"
          /\ calls' = [calls EXCEPT ![i].reconcile = @ + 1]
          /\ UNCHANGED isShuttingDown
  /\ UNCHANGED <<envVars, exited, exitCode, fatal, loopVars, xferVars,
                 run, reports, storeCalls, prev, enumeration,
                 sigints, pending, intAt, flagAt, cleanup>>

\* The head of an iteration: the loop ends after the last video or on the
\* shutdown flag; otherwise isObjectInBucket is called for video i.
LoopHead ==
  /\ Running /\ pc = "loop"
  /\ IF i > Len(urls) \/ LoopBreaks
     THEN pc' = "done" /\ UNCHANGED calls
     ELSE /\ pc' = "exists"
          /\ calls' = [calls EXCEPT ![i].reconcile = @ + 1]
  /\ UNCHANGED <<envVars, exited, exitCode, fatal, loopVars, xferVars,
                 run, reports, storeCalls, prev, enumeration, sigVars, cleanup>>

\* The existence check answers: the video is skipped, or getMetadata spawns
\* the probe.
exists_live == isObjectInBucket({o.key : o \in store}, urls[i].title)

\* `const exists = await isObjectInBucket(bucketObjectKeys, title)`
exists == isObjectInBucket(bucketObjectKeys, urls[i].title)

ExistsResolves ==
  /\ Running /\ pc = "exists"
  /\ IF exists
     THEN /\ reports' = [reports EXCEPT ![i] = Append(@, "skipped")]
          /\ i' = NextIndex(i)
          /\ pc' = "loop"
          /\ UNCHANGED calls
     ELSE /\ calls' = [calls EXCEPT ![i].probe = @ + 1]
          /\ pc' = "probe"
          /\ UNCHANGED <<reports, i>>
  /\ UNCHANGED <<envVars, exited, exitCode, fatal, bucketObjectKeys, urls,
                 metadata, xferVars, run, storeCalls, prev, enumeration, sigVars, cleanup>>

\* The probe closes with code 0: the metadata is parsed, the streaming child
\* is spawned and putObject is called on its standard output.
ProbeSucceeds ==
  /\ Running /\ pc = "probe"
  /\ \E out \in ProbeOutputs(urls[i].videoUrl) :
       metadata' = [metadata EXCEPT ![i] = getMetadata(out)]
  /\ child' = [child EXCEPT ![i].st = "running", ![i].listeners = {"progress"}]
  /\ upload' = [upload EXCEPT ![i] = "pending"]
  /\ calls' = [calls EXCEPT ![i].spawn = @ + 1, ![i].put = @ + 1]
  /\ storeCalls' = [storeCalls EXCEPT !.putObject = @ + 1]
  /\ pc' = "transfer"
  /\ UNCHANGED <<envVars, exited, exitCode, fatal, bucketObjectKeys, urls, i,
                 run, reports, prev, enumeration, sigVars, cleanup>>

\* The probe closes with another code: getMetadata rethrows and main().catch
\* exits with code 1.  (A probe that cannot be spawned ends the process with
\* code 1 as well, by the uncaught 'error' of executeCommand.)
ProbeFails ==
  /\ Running /\ pc = "probe"
  /\ reports' = [reports EXCEPT ![i] = Append(@, "probeFailed")]
  /\ Exit(1, "probeFailed")
  /\ UNCHANGED <<envVars, pc, loopVars, xferVars, run, calls, storeCalls, prev, enumeration,
                 sigVars, cleanup>>

\* ------------------------------------------------------------ the transfer
\* The streaming child fails to spawn or to be signalled: the 'error' handler
\* exits with code 1.
ChildError(k) ==
  /\ Running /\ k \in DOMAIN child /\ child[k].st = "running"
  /\ child' = [child EXCEPT ![k].st = "error"]
  /\ reports' = [reports EXCEPT ![k] = Append(@, "extractionFailed")]
  /\ Exit(1, "extractionFailed")
  /\ UNCHANGED <<envVars, pc, loopVars, upload, run, calls, storeCalls, prev, enumeration,
                 sigVars, cleanup>>

\* The child writes the next chunk of its stream: the 'data' event reaches
\* the listeners attached at that moment, the progress listener counting the
\* bytes and the upload, once it reads the stream, taking them into its body.
ChildWrites(k) ==
  /\ Running /\ k \in DOMAIN child /\ child[k].st = "running"
  /\ \E chunks \in StreamChunks(urls[k].videoUrl) :
       LET n == Len(child[k].sent) + 1
           chunk == chunks[n]
       IN /\ n <= Len(chunks)
          /\ child' = [child EXCEPT
               ![k].sent = Append(@, chunk),
               ![k].written = @ + chunk,
               ![k].received = IF "upload" \in child[k].listeners
                               THEN Append(@, chunk) ELSE @]
  /\ UNCHANGED <<envVars, procVars, loopVars, upload, histVars, sigVars, cleanup>>

\* putObject starts to read the stream it was given, at once or after an
\* exchange with the store.
UploadAttaches(k) ==
  /\ Running /\ k \in DOMAIN upload /\ upload[k] = "pending"
  /\ child[k].st \in {"running", "ended", "closed"}
  /\ "upload" \notin child[k].listeners
  /\ child' = [child EXCEPT ![k].listeners = @ \cup {"upload"}]
  /\ UNCHANGED <<envVars, procVars, loopVars, upload, histVars, sigVars, cleanup>>

\* The child's standard output ends, after the whole stream or after a part
\* of it; the child itself is still there.
ChildStdoutEnds(k) ==
  /\ Running /\ k \in DOMAIN child /\ child[k].st = "running"
  /\ \E chunks \in StreamChunks(urls[k].videoUrl) :
       child' = [child EXCEPT ![k].st = "ended",
                              ![k].full = (child[k].sent = chunks)]
  /\ UNCHANGED <<envVars, procVars, loopVars, upload, histVars, sigVars, cleanup>>

\* `if (code !== 0)` in the 'close' handler.
CloseIsFailure(code) == code # 0

\* The child terminates and its 'close' handler runs: a code other than 0
\* exits the process with code 1, and with code 0 the handler does nothing,
\* whether the child has written its whole stream or a part of it.
ChildCloses(k) ==
  /\ Running /\ k \in DOMAIN child /\ child[k].st = "ended"
  /\ \E code \in {0, 1} :
       /\ child' = [child EXCEPT ![k].st = "closed", ![k].code = code]
       /\ IF CloseIsFailure(code)
          THEN /\ reports' = [reports EXCEPT ![k] = Append(@, "extractionFailed")]
               /\ Exit(1, "extractionFailed")
          ELSE UNCHANGED <<reports, exited, exitCode, fatal>>
  /\ UNCHANGED <<envVars, pc, loopVars, upload, run, calls, storeCalls, prev, enumeration,
                 sigVars, cleanup>>

\* The object putObject writes: what it read of the stream until its end.
PutObject(objects, key, body) ==
  {o \in objects : o.key # key}
    \cup {[key |-> key, size |-> Sum(body.received),
           truncated |-> ~(body.full /\ body.received = body.sent)]}

\* The store has read the stream to its end and commits the object.
StoreCommits(k) ==
  /\ Running /\ k \in DOMAIN upload /\ upload[k] = "pending"
  /\ child[k].st \in {"ended", "closed"}
  /\ "upload" \in child[k].listeners
  /\ store' = PutObject(store, s3ObjectKey(urls[k].title, metadata[k]), child[k])
  /\ upload' = [upload EXCEPT ![k] = "committed"]
  /\ UNCHANGED <<argv, listing, bucketPresent, procVars, loopVars, child,
                 histVars, sigVars, cleanup>>

\* putObject resolves: 'Successfully uploaded', and the loop goes on.
UploadResolves ==
  /\ Running /\ pc = "transfer" /\ upload[i] = "committed"
  /\ upload' = [upload EXCEPT ![i] = "ok"]
  /\ reports' = [reports EXCEPT ![i] = Append(@, "uploaded")]
  /\ i' = NextIndex(i)
  /\ pc' = "loop"
  /\ UNCHANGED <<envVars, exited, exitCode, fatal, bucketObjectKeys, urls,
                 metadata, child, run, calls, storeCalls, prev, enumeration, sigVars, cleanup>>

\* ytdlpProcess.kill() in the catch of putObject: SIGTERM is sent to a child
\* that has not terminated, and nothing waits for it; when process.exit
\* follows, the child has terminated by the signal or is still there.
KillChild(c) ==
  IF c.st \in {"running", "ended"}
  THEN {[c EXCEPT !.st = "killed"], [c EXCEPT !.st = "signalled"]}
  ELSE {c}

\* putObject rejects: the child is killed and the process exits with code 1.
UploadRejects ==
  /\ Running /\ pc = "transfer" /\ upload[i] = "pending"
  /\ upload' = [upload EXCEPT ![i] = "failed"]
  /\ reports' = [reports EXCEPT ![i] = Append(@, "storeWriteFailed")]
  /\ \E c \in KillChild(child[i]) : child' = [child EXCEPT ![i] = c]
  /\ Exit(1, "storeWriteFailed")
  /\ UNCHANGED <<envVars, pc, loopVars, run, calls, storeCalls, prev, enumeration, sigVars, cleanup>>

\* ------------------------------------------------------------------ SIGINT
\* `process.on('SIGINT', ...)` is reached when the imports of the module are
\* loaded and the module is evaluated, which is the step ParseArgs.
HandlerInstalled == pc # "parse"

\* main() runs: from the answer it waited for, the head of the loop and the
\* existence check follow in one turn of the event loop, up to the next call
\* main() waits for.  The SIGINT handler cannot run inside a turn.
InTurn == pc \in {"loop", "exists"}

\* `if (isShuttingDown) process.exit(1)` in the SIGINT handler.
SigintForcesExit == isShuttingDown

\* The SIGINT handler: with the flag set it exits with code 1, otherwise it
\* sets the flag.
OnSigint ==
  IF SigintForcesExit
  THEN Exit(1, "forced") /\ UNCHANGED <<isShuttingDown, intAt>>
  ELSE /\ isShuttingDown' = TRUE
       /\ intAt' = IF pc = "transfer" THEN i ELSE intAt
       /\ UNCHANGED <<exited, exitCode, fatal>>

\* A SIGINT is delivered to the process.  Before the handler is installed
\* the signal ends the process, with the status 130 of a process ended by
\* SIGINT.  While main() waits, the handler runs in the next turn of the
\* event loop, which is this step.  Inside a turn, or behind a signal that
\* still waits, the signal waits for the event loop.
Sigint ==
  /\ Running /\ sigints < MaxSigints /\ pending < MaxPending
  /\ sigints' = sigints + 1
  /\ flagAt' = IF sigints = 0 THEN [pc |-> pc, i |-> i] ELSE flagAt
  /\ IF ~HandlerInstalled
     THEN Exit(130, "sigint") /\ UNCHANGED <<isShuttingDown, intAt, pending>>
     ELSE IF InTurn \/ pending > 0
     THEN /\ pending' = pending + 1
          /\ UNCHANGED <<isShuttingDown, intAt, exited, exitCode, fatal>>
     ELSE OnSigint /\ UNCHANGED pending
  /\ UNCHANGED <<envVars, pc, loopVars, xferVars, histVars, cleanup>>

\* The event loop runs the handler for a signal that waited.
SigintHandler ==
  /\ Running /\ pending > 0 /\ ~InTurn
  /\ pending' = pending - 1
  /\ OnSigint
  /\ UNCHANGED <<envVars, pc, loopVars, xferVars, histVars, sigints, flagAt, cleanup>>

\* -------------------------------------------------------------- the ending
\* main() has returned and no child process keeps the event loop alive: the
\* process ends with code 0.
NaturalExit ==
  /\ Running /\ pc = "done"
  /\ \A k \in DOMAIN child : ~Alive(k)
  /\ Exit(0, "none")
  /\ UNCHANGED <<envVars, pc, loopVars, xferVars, histVars, sigVars, cleanup>>

\* The program is run again over the same source and the bucket as the run
\* before left it, however that run ended.
NextRun ==
  /\ exited /\ run < MaxRuns
  /\ run' = run + 1
  /\ prev' = [ran |-> TRUE,
              clean |-> pc = "done" /\ \A k \in DOMAIN urls :
                          reports[k] \in {<<"skipped">>, <<"uploaded">>},
              uploaded |-> \E k \in DOMAIN urls : reports[k] = <<"uploaded">>]
  /\ pc' = "parse"
  /\ exited' = FALSE
  /\ exitCode' = 0
  /\ fatal' = "none"
  /\ isShuttingDown' = FALSE
  /\ bucketObjectKeys' = {}
  /\ urls' = <<>>
  /\ i' = 1
  /\ metadata' = <<>>
  /\ child' = <<>>
  /\ upload' = <<>>
  /\ reports' = <<>>
  /\ calls' = <<>>
  /\ storeCalls' = NoStoreCalls
  /\ sigints' = 0
  /\ pending' = 0
  /\ intAt' = 0
  /\ flagAt' = NoFlag
  /\ enumeration' = "none"
  /\ UNCHANGED <<envVars, cleanup>>

Next ==
  \/ ParseArgs
  \/ ValidateYtDlpPath
  \/ BucketExists
  \/ MakeBucket
  \/ GetBucketObjectKeys
  \/ GetPlaylistUrls
  \/ LoopHead
  \/ ExistsResolves
  \/ ProbeSucceeds
  \/ ProbeFails
  \/ \E k \in 1..(MaxItems + 1) : ChildError(k)
  \/ \E k \in 1..(MaxItems + 1) : ChildWrites(k)
  \/ \E k \in 1..(MaxItems + 1) : UploadAttaches(k)
  \/ \E k \in 1..(MaxItems + 1) : ChildStdoutEnds(k)
  \/ \E k \in 1..(MaxItems + 1) : ChildCloses(k)
  \/ \E k \in 1..(MaxItems + 1) : StoreCommits(k)
  \/ UploadResolves
  \/ UploadRejects
  \/ Sigint
  \/ SigintHandler
  \/ NaturalExit
  \/ NextRun

Spec == Init /\ [][Next]_vars

\* The steps of the program and of what it waits for: every step but the
\* delivery of a SIGINT and the start of another run.
Step ==
  \/ ParseArgs
  \/ ValidateYtDlpPath
  \/ BucketExists
  \/ MakeBucket
  \/ GetBucketObjectKeys
  \/ GetPlaylistUrls
  \/ LoopHead
  \/ ExistsResolves
  \/ ProbeSucceeds
  \/ ProbeFails
  \/ \E k \in 1..(MaxItems + 1) : ChildError(k)
  \/ \E k \in 1..(MaxItems + 1) : ChildWrites(k)
  \/ \E k \in 1..(MaxItems + 1) : UploadAttaches(k)
  \/ \E k \in 1..(MaxItems + 1) : ChildStdoutEnds(k)
  \/ \E k \in 1..(MaxItems + 1) : ChildCloses(k)
  \/ \E k \in 1..(MaxItems + 1) : StoreCommits(k)
  \/ UploadResolves
  \/ UploadRejects
  \/ SigintHandler
  \/ NaturalExit

\* Every call the program waits for answers, and a continuation that can run
\* is run.
FairSpec == Init /\ [][Next]_vars /\ WF_vars(Step)

\* ------------------------------------------ delete-duplicate-extension.mjs
Upper ==
  <<"A", "B", "C", "D", "E", "F", "G", "H", "I", "J", "K", "L", "M",
    "N", "O", "P", "Q", "R", "S", "T", "U", "V", "W", "X", "Y", "Z">>

Lower ==
  <<"a", "b", "c", "d", "e", "f", "g", "h", "i", "j", "k", "l", "m",
    "n", "o", "p", "q", "r", "s", "t", "u", "v", "w", "x", "y", "z">>

\* ------------------------------- String.prototype.toLowerCase (Unicode 17.0)
\* The case mappings and the properties Cased and Case_Ignorable are those of
\* the Unicode Character Database the runtime carries, here version 17.0.
HexDigits ==
  <<"0", "1", "2", "3", "4", "5", "6", "7", "8", "9", "A", "B", "C", "D", "E", "F">>

\* The character is written as the name of its code point.
IsCodePoint(c) == Len(c) >= 6 /\ SubSeq(c, 1, 2) = "U+"

\* The value of the hexadecimal digits of name from position p on, after acc.
RECURSIVE HexValue(_, _, _)
HexValue(name, p, acc) ==
  IF p > Len(name) THEN acc
  ELSE HexValue(name, p + 1,
         acc * 16 + (CHOOSE d \in 1..16 : HexDigits[d] = SubSeq(name, p, p)) - 1)

\* The code point of a character outside ASCII.
CodePoint(c) == HexValue(c, 3, 0)

\* The number n in hexadecimal digits, at least width of them.
RECURSIVE Hex(_, _)
Hex(n, width) ==
  IF n = 0 /\ width <= 0 THEN ""
  ELSE Hex(n \div 16, width - 1) \o HexDigits[(n % 16) + 1]

\* The character of a code point: a small letter of ASCII, or a character
\* outside ASCII.
Character(n) == IF n < 128 THEN Lower[n - 96] ELSE "U+" \o Hex(n, 4)

\* The lower-case mappings outside ASCII, as <<first, last, step, offset>>:
\* every step-th code point from first to last maps to itself plus offset.
LowerCaseRanges ==
  << <<192, 214, 1, 32>>, <<216, 222, 1, 32>>, <<256, 302, 2, 1>>,
     <<306, 310, 2, 1>>, <<313, 327, 2, 1>>, <<330, 374, 2, 1>>,
     <<376, 376, 1, -121>>, <<377, 381, 2, 1>>, <<385, 385, 1, 210>>,
     <<386, 388, 2, 1>>, <<390, 390, 1, 206>>, <<391, 391, 1, 1>>,
     <<393, 394, 1, 205>>, <<395, 395, 1, 1>>, <<398, 398, 1, 79>>,
     <<399, 399, 1, 202>>, <<400, 400, 1, 203>>, <<401, 401, 1, 1>>,
     <<403, 403, 1, 205>>, <<404, 404, 1, 207>>, <<406, 406, 1, 211>>,
     <<407, 407, 1, 209>>, <<408, 408, 1, 1>>, <<412, 412, 1, 211>>,
     <<413, 413, 1, 213>>, <<415, 415, 1, 214>>, <<416, 420, 2, 1>>,
     <<422, 422, 1, 218>>, <<423, 423, 1, 1>>, <<425, 425, 1, 218>>,
     <<428, 428, 1, 1>>, <<430, 430, 1, 218>>, <<431, 431, 1, 1>>,
     <<433, 434, 1, 217>>, <<435, 437, 2, 1>>, <<439, 439, 1, 219>>,
     <<440, 440, 1, 1>>, <<444, 444, 1, 1>>, <<452, 452, 1, 2>>,
     <<453, 453, 1, 1>>, <<455, 455, 1, 2>>, <<456, 456, 1, 1>>,
     <<458, 458, 1, 2>>, <<459, 475, 2, 1>>, <<478, 494, 2, 1>>,
     <<497, 497, 1, 2>>, <<498, 500, 2, 1>>, <<502, 502, 1, -97>>,
     <<503, 503, 1, -56>>, <<504, 542, 2, 1>>, <<544, 544, 1, -130>>,
     <<546, 562, 2, 1>>, <<570, 570, 1, 10795>>, <<571, 571, 1, 1>>,
     <<573, 573, 1, -163>>, <<574, 574, 1, 10792>>, <<577, 577, 1, 1>>,
     <<579, 579, 1, -195>>, <<580, 580, 1, 69>>, <<581, 581, 1, 71>>,
     <<582, 590, 2, 1>>, <<880, 882, 2, 1>>, <<886, 886, 1, 1>>,
     <<895, 895, 1, 116>>, <<902, 902, 1, 38>>, <<904, 906, 1, 37>>,
     <<908, 908, 1, 64>>, <<910, 911, 1, 63>>, <<913, 929, 1, 32>>,
     <<931, 939, 1, 32>>, <<975, 975, 1, 8>>, <<984, 1006, 2, 1>>,
     <<1012, 1012, 1, -60>>, <<1015, 1015, 1, 1>>, <<1017, 1017, 1, -7>>,
     <<1018, 1018, 1, 1>>, <<1021, 1023, 1, -130>>, <<1024, 1039, 1, 80>>,
     <<1040, 1071, 1, 32>>, <<1120, 1152, 2, 1>>, <<1162, 1214, 2, 1>>,
     <<1216, 1216, 1, 15>>, <<1217, 1229, 2, 1>>, <<1232, 1326, 2, 1>>,
     <<1329, 1366, 1, 48>>, <<4256, 4293, 1, 7264>>, <<4295, 4295, 1, 7264>>,
     <<4301, 4301, 1, 7264>>, <<5024, 5103, 1, 38864>>, <<5104, 5109, 1, 8>>,
     <<7305, 7305, 1, 1>>, <<7312, 7354, 1, -3008>>, <<7357, 7359, 1, -3008>>,
     <<7680, 7828, 2, 1>>, <<7838, 7838, 1, -7615>>, <<7840, 7934, 2, 1>>,
     <<7944, 7951, 1, -8>>, <<7960, 7965, 1, -8>>, <<7976, 7983, 1, -8>>,
     <<7992, 7999, 1, -8>>, <<8008, 8013, 1, -8>>, <<8025, 8031, 2, -8>>,
     <<8040, 8047, 1, -8>>, <<8072, 8079, 1, -8>>, <<8088, 8095, 1, -8>>,
     <<8104, 8111, 1, -8>>, <<8120, 8121, 1, -8>>, <<8122, 8123, 1, -74>>,
     <<8124, 8124, 1, -9>>, <<8136, 8139, 1, -86>>, <<8140, 8140, 1, -9>>,
     <<8152, 8153, 1, -8>>, <<8154, 8155, 1, -100>>, <<8168, 8169, 1, -8>>,
     <<8170, 8171, 1, -112>>, <<8172, 8172, 1, -7>>, <<8184, 8185, 1, -128>>,
     <<8186, 8187, 1, -126>>, <<8188, 8188, 1, -9>>, <<8486, 8486, 1, -7517>>,
     <<8490, 8490, 1, -8383>>, <<8491, 8491, 1, -8262>>,
     <<8498, 8498, 1, 28>>, <<8544, 8559, 1, 16>>, <<8579, 8579, 1, 1>>,
     <<9398, 9423, 1, 26>>, <<11264, 11311, 1, 48>>, <<11360, 11360, 1, 1>>,
     <<11362, 11362, 1, -10743>>, <<11363, 11363, 1, -3814>>,
     <<11364, 11364, 1, -10727>>, <<11367, 11371, 2, 1>>,
     <<11373, 11373, 1, -10780>>, <<11374, 11374, 1, -10749>>,
     <<11375, 11375, 1, -10783>>, <<11376, 11376, 1, -10782>>,
     <<11378, 11378, 1, 1>>, <<11381, 11381, 1, 1>>,
     <<11390, 11391, 1, -10815>>, <<11392, 11490, 2, 1>>,
     <<11499, 11501, 2, 1>>, <<11506, 11506, 1, 1>>, <<42560, 42604, 2, 1>>,
     <<42624, 42650, 2, 1>>, <<42786, 42798, 2, 1>>, <<42802, 42862, 2, 1>>,
     <<42873, 42875, 2, 1>>, <<42877, 42877, 1, -35332>>,
     <<42878, 42886, 2, 1>>, <<42891, 42891, 1, 1>>,
     <<42893, 42893, 1, -42280>>, <<42896, 42898, 2, 1>>,
     <<42902, 42920, 2, 1>>, <<42922, 42922, 1, -42308>>,
     <<42923, 42923, 1, -42319>>, <<42924, 42924, 1, -42315>>,
     <<42925, 42925, 1, -42305>>, <<42926, 42926, 1, -42308>>,
     <<42928, 42928, 1, -42258>>, <<42929, 42929, 1, -42282>>,
     <<42930, 42930, 1, -42261>>, <<42931, 42931, 1, 928>>,
     <<42932, 42946, 2, 1>>, <<42948, 42948, 1, -48>>,
     <<42949, 42949, 1, -42307>>, <<42950, 42950, 1, -35384>>,
     <<42951, 42953, 2, 1>>, <<42955, 42955, 1, -42343>>,
     <<42956, 42970, 2, 1>>, <<42972, 42972, 1, -42561>>,
     <<42997, 42997, 1, 1>>, <<65313, 65338, 1, 32>>, <<66560, 66599, 1, 40>>,
     <<66736, 66771, 1, 40>>, <<66928, 66938, 1, 39>>,
     <<66940, 66954, 1, 39>>, <<66956, 66962, 1, 39>>,
     <<66964, 66965, 1, 39>>, <<68736, 68786, 1, 64>>,
     <<68944, 68965, 1, 32>>, <<71840, 71871, 1, 32>>,
     <<93760, 93791, 1, 32>>, <<93856, 93880, 1, 27>>,
     <<125184, 125217, 1, 34>> >>

\* The cased letters outside ASCII that are not case-ignorable, as
\* <<first, last>>.
CasedRanges ==
  << <<170, 170>>, <<181, 181>>, <<186, 186>>, <<192, 214>>, <<216, 246>>,
     <<248, 442>>, <<444, 447>>, <<452, 659>>, <<662, 687>>, <<880, 883>>,
     <<886, 887>>, <<891, 893>>, <<895, 895>>, <<902, 902>>, <<904, 906>>,
     <<908, 908>>, <<910, 929>>, <<931, 1013>>, <<1015, 1153>>,
     <<1162, 1327>>, <<1329, 1366>>, <<1376, 1416>>, <<4256, 4293>>,
     <<4295, 4295>>, <<4301, 4301>>, <<4304, 4346>>, <<4349, 4351>>,
     <<5024, 5109>>, <<5112, 5117>>, <<7296, 7306>>, <<7312, 7354>>,
     <<7357, 7359>>, <<7424, 7467>>, <<7531, 7543>>, <<7545, 7578>>,
     <<7680, 7957>>, <<7960, 7965>>, <<7968, 8005>>, <<8008, 8013>>,
     <<8016, 8023>>, <<8025, 8025>>, <<8027, 8027>>, <<8029, 8029>>,
     <<8031, 8061>>, <<8064, 8116>>, <<8118, 8124>>, <<8126, 8126>>,
     <<8130, 8132>>, <<8134, 8140>>, <<8144, 8147>>, <<8150, 8155>>,
     <<8160, 8172>>, <<8178, 8180>>, <<8182, 8188>>, <<8450, 8450>>,
     <<8455, 8455>>, <<8458, 8467>>, <<8469, 8469>>, <<8473, 8477>>,
     <<8484, 8484>>, <<8486, 8486>>, <<8488, 8488>>, <<8490, 8493>>,
     <<8495, 8500>>, <<8505, 8505>>, <<8508, 8511>>, <<8517, 8521>>,
     <<8526, 8526>>, <<8544, 8575>>, <<8579, 8580>>, <<9398, 9449>>,
     <<11264, 11387>>, <<11390, 11492>>, <<11499, 11502>>, <<11506, 11507>>,
     <<11520, 11557>>, <<11559, 11559>>, <<11565, 11565>>, <<42560, 42605>>,
     <<42624, 42651>>, <<42786, 42863>>, <<42865, 42887>>, <<42891, 42894>>,
     <<42896, 42972>>, <<42997, 42998>>, <<43002, 43002>>, <<43824, 43866>>,
     <<43872, 43880>>, <<43888, 43967>>, <<64256, 64262>>, <<64275, 64279>>,
     <<65313, 65338>>, <<65345, 65370>>, <<66560, 66639>>, <<66736, 66771>>,
     <<66776, 66811>>, <<66928, 66938>>, <<66940, 66954>>, <<66956, 66962>>,
     <<66964, 66965>>, <<66967, 66977>>, <<66979, 66993>>, <<66995, 67001>>,
     <<67003, 67004>>, <<68736, 68786>>, <<68800, 68850>>, <<68944, 68965>>,
     <<68976, 68997>>, <<71840, 71903>>, <<93760, 93823>>, <<93856, 93880>>,
     <<93883, 93907>>, <<119808, 119892>>, <<119894, 119964>>,
     <<119966, 119967>>, <<119970, 119970>>, <<119973, 119974>>,
     <<119977, 119980>>, <<119982, 119993>>, <<119995, 119995>>,
     <<119997, 120003>>, <<120005, 120069>>, <<120071, 120074>>,
     <<120077, 120084>>, <<120086, 120092>>, <<120094, 120121>>,
     <<120123, 120126>>, <<120128, 120132>>, <<120134, 120134>>,
     <<120138, 120144>>, <<120146, 120485>>, <<120488, 120512>>,
     <<120514, 120538>>, <<120540, 120570>>, <<120572, 120596>>,
     <<120598, 120628>>, <<120630, 120654>>, <<120656, 120686>>,
     <<120688, 120712>>, <<120714, 120744>>, <<120746, 120770>>,
     <<120772, 120779>>, <<122624, 122633>>, <<122635, 122654>>,
     <<122661, 122666>>, <<125184, 125251>>, <<127280, 127305>>,
     <<127312, 127337>>, <<127344, 127369>> >>

\* The case-ignorable characters written by the name of their code point, as
\* <<first, last>>.
CaseIgnorableRanges ==
  << <<96, 96>>, <<168, 168>>, <<173, 173>>, <<175, 175>>, <<180, 180>>,
     <<183, 184>>, <<688, 879>>, <<884, 885>>, <<890, 890>>, <<900, 901>>,
     <<903, 903>>, <<1155, 1161>>, <<1369, 1369>>, <<1375, 1375>>,
     <<1425, 1469>>, <<1471, 1471>>, <<1473, 1474>>, <<1476, 1477>>,
     <<1479, 1479>>, <<1524, 1524>>, <<1536, 1541>>, <<1552, 1562>>,
     <<1564, 1564>>, <<1600, 1600>>, <<1611, 1631>>, <<1648, 1648>>,
     <<1750, 1757>>, <<1759, 1768>>, <<1770, 1773>>, <<1807, 1807>>,
     <<1809, 1809>>, <<1840, 1866>>, <<1958, 1968>>, <<2027, 2037>>,
     <<2042, 2042>>, <<2045, 2045>>, <<2070, 2093>>, <<2137, 2139>>,
     <<2184, 2184>>, <<2192, 2193>>, <<2199, 2207>>, <<2249, 2306>>,
     <<2362, 2362>>, <<2364, 2364>>, <<2369, 2376>>, <<2381, 2381>>,
     <<2385, 2391>>, <<2402, 2403>>, <<2417, 2417>>, <<2433, 2433>>,
     <<2492, 2492>>, <<2497, 2500>>, <<2509, 2509>>, <<2530, 2531>>,
     <<2558, 2558>>, <<2561, 2562>>, <<2620, 2620>>, <<2625, 2626>>,
     <<2631, 2632>>, <<2635, 2637>>, <<2641, 2641>>, <<2672, 2673>>,
     <<2677, 2677>>, <<2689, 2690>>, <<2748, 2748>>, <<2753, 2757>>,
     <<2759, 2760>>, <<2765, 2765>>, <<2786, 2787>>, <<2810, 2815>>,
     <<2817, 2817>>, <<2876, 2876>>, <<2879, 2879>>, <<2881, 2884>>,
     <<2893, 2893>>, <<2901, 2902>>, <<2914, 2915>>, <<2946, 2946>>,
     <<3008, 3008>>, <<3021, 3021>>, <<3072, 3072>>, <<3076, 3076>>,
     <<3132, 3132>>, <<3134, 3136>>, <<3142, 3144>>, <<3146, 3149>>,
     <<3157, 3158>>, <<3170, 3171>>, <<3201, 3201>>, <<3260, 3260>>,
     <<3263, 3263>>, <<3270, 3270>>, <<3276, 3277>>, <<3298, 3299>>,
     <<3328, 3329>>, <<3387, 3388>>, <<3393, 3396>>, <<3405, 3405>>,
     <<3426, 3427>>, <<3457, 3457>>, <<3530, 3530>>, <<3538, 3540>>,
     <<3542, 3542>>, <<3633, 3633>>, <<3636, 3642>>, <<3654, 3662>>,
     <<3761, 3761>>, <<3764, 3772>>, <<3782, 3782>>, <<3784, 3790>>,
     <<3864, 3865>>, <<3893, 3893>>, <<3895, 3895>>, <<3897, 3897>>,
     <<3953, 3966>>, <<3968, 3972>>, <<3974, 3975>>, <<3981, 3991>>,
     <<3993, 4028>>, <<4038, 4038>>, <<4141, 4144>>, <<4146, 4151>>,
     <<4153, 4154>>, <<4157, 4158>>, <<4184, 4185>>, <<4190, 4192>>,
     <<4209, 4212>>, <<4226, 4226>>, <<4229, 4230>>, <<4237, 4237>>,
     <<4253, 4253>>, <<4348, 4348>>, <<4957, 4959>>, <<5906, 5908>>,
     <<5938, 5939>>, <<5970, 5971>>, <<6002, 6003>>, <<6068, 6069>>,
     <<6071, 6077>>, <<6086, 6086>>, <<6089, 6099>>, <<6103, 6103>>,
     <<6109, 6109>>, <<6155, 6159>>, <<6211, 6211>>, <<6277, 6278>>,
     <<6313, 6313>>, <<6432, 6434>>, <<6439, 6440>>, <<6450, 6450>>,
     <<6457, 6459>>, <<6679, 6680>>, <<6683, 6683>>, <<6742, 6742>>,
     <<6744, 6750>>, <<6752, 6752>>, <<6754, 6754>>, <<6757, 6764>>,
     <<6771, 6780>>, <<6783, 6783>>, <<6823, 6823>>, <<6832, 6877>>,
     <<6880, 6891>>, <<6912, 6915>>, <<6964, 6964>>, <<6966, 6970>>,
     <<6972, 6972>>, <<6978, 6978>>, <<7019, 7027>>, <<7040, 7041>>,
     <<7074, 7077>>, <<7080, 7081>>, <<7083, 7085>>, <<7142, 7142>>,
     <<7144, 7145>>, <<7149, 7149>>, <<7151, 7153>>, <<7212, 7219>>,
     <<7222, 7223>>, <<7288, 7293>>, <<7376, 7378>>, <<7380, 7392>>,
     <<7394, 7400>>, <<7405, 7405>>, <<7412, 7412>>, <<7416, 7417>>,
     <<7468, 7530>>, <<7544, 7544>>, <<7579, 7679>>, <<8125, 8125>>,
     <<8127, 8129>>, <<8141, 8143>>, <<8157, 8159>>, <<8173, 8175>>,
     <<8189, 8190>>, <<8203, 8207>>, <<8216, 8217>>, <<8228, 8228>>,
     <<8231, 8231>>, <<8234, 8238>>, <<8288, 8292>>, <<8294, 8303>>,
     <<8305, 8305>>, <<8319, 8319>>, <<8336, 8348>>, <<8400, 8432>>,
     <<11388, 11389>>, <<11503, 11505>>, <<11631, 11631>>, <<11647, 11647>>,
     <<11744, 11775>>, <<11823, 11823>>, <<12293, 12293>>, <<12330, 12333>>,
     <<12337, 12341>>, <<12347, 12347>>, <<12441, 12446>>, <<12540, 12542>>,
     <<40981, 40981>>, <<42232, 42237>>, <<42508, 42508>>, <<42607, 42610>>,
     <<42612, 42621>>, <<42623, 42623>>, <<42652, 42655>>, <<42736, 42737>>,
     <<42752, 42785>>, <<42864, 42864>>, <<42888, 42890>>, <<42993, 42996>>,
     <<43000, 43001>>, <<43010, 43010>>, <<43014, 43014>>, <<43019, 43019>>,
     <<43045, 43046>>, <<43052, 43052>>, <<43204, 43205>>, <<43232, 43249>>,
     <<43263, 43263>>, <<43302, 43309>>, <<43335, 43345>>, <<43392, 43394>>,
     <<43443, 43443>>, <<43446, 43449>>, <<43452, 43453>>, <<43471, 43471>>,
     <<43493, 43494>>, <<43561, 43566>>, <<43569, 43570>>, <<43573, 43574>>,
     <<43587, 43587>>, <<43596, 43596>>, <<43632, 43632>>, <<43644, 43644>>,
     <<43696, 43696>>, <<43698, 43700>>, <<43703, 43704>>, <<43710, 43711>>,
     <<43713, 43713>>, <<43741, 43741>>, <<43756, 43757>>, <<43763, 43764>>,
     <<43766, 43766>>, <<43867, 43871>>, <<43881, 43883>>, <<44005, 44005>>,
     <<44008, 44008>>, <<44013, 44013>>, <<64286, 64286>>, <<64434, 64450>>,
     <<65024, 65039>>, <<65043, 65043>>, <<65056, 65071>>, <<65106, 65106>>,
     <<65109, 65109>>, <<65279, 65279>>, <<65287, 65287>>, <<65294, 65294>>,
     <<65306, 65306>>, <<65342, 65342>>, <<65344, 65344>>, <<65392, 65392>>,
     <<65438, 65439>>, <<65507, 65507>>, <<65529, 65531>>, <<66045, 66045>>,
     <<66272, 66272>>, <<66422, 66426>>, <<67456, 67461>>, <<67463, 67504>>,
     <<67506, 67514>>, <<68097, 68099>>, <<68101, 68102>>, <<68108, 68111>>,
     <<68152, 68154>>, <<68159, 68159>>, <<68325, 68326>>, <<68900, 68903>>,
     <<68942, 68942>>, <<68969, 68973>>, <<68975, 68975>>, <<69291, 69292>>,
     <<69317, 69317>>, <<69370, 69375>>, <<69446, 69456>>, <<69506, 69509>>,
     <<69633, 69633>>, <<69688, 69702>>, <<69744, 69744>>, <<69747, 69748>>,
     <<69759, 69761>>, <<69811, 69814>>, <<69817, 69818>>, <<69821, 69821>>,
     <<69826, 69826>>, <<69837, 69837>>, <<69888, 69890>>, <<69927, 69931>>,
     <<69933, 69940>>, <<70003, 70003>>, <<70016, 70017>>, <<70070, 70078>>,
     <<70089, 70092>>, <<70095, 70095>>, <<70191, 70193>>, <<70196, 70196>>,
     <<70198, 70199>>, <<70206, 70206>>, <<70209, 70209>>, <<70367, 70367>>,
     <<70371, 70378>>, <<70400, 70401>>, <<70459, 70460>>, <<70464, 70464>>,
     <<70502, 70508>>, <<70512, 70516>>, <<70587, 70592>>, <<70606, 70606>>,
     <<70608, 70608>>, <<70610, 70610>>, <<70625, 70626>>, <<70712, 70719>>,
     <<70722, 70724>>, <<70726, 70726>>, <<70750, 70750>>, <<70835, 70840>>,
     <<70842, 70842>>, <<70847, 70848>>, <<70850, 70851>>, <<71090, 71093>>,
     <<71100, 71101>>, <<71103, 71104>>, <<71132, 71133>>, <<71219, 71226>>,
     <<71229, 71229>>, <<71231, 71232>>, <<71339, 71339>>, <<71341, 71341>>,
     <<71344, 71349>>, <<71351, 71351>>, <<71453, 71453>>, <<71455, 71455>>,
     <<71458, 71461>>, <<71463, 71467>>, <<71727, 71735>>, <<71737, 71738>>,
     <<71995, 71996>>, <<71998, 71998>>, <<72003, 72003>>, <<72148, 72151>>,
     <<72154, 72155>>, <<72160, 72160>>, <<72193, 72202>>, <<72243, 72248>>,
     <<72251, 72254>>, <<72263, 72263>>, <<72273, 72278>>, <<72281, 72283>>,
     <<72330, 72342>>, <<72344, 72345>>, <<72544, 72544>>, <<72546, 72548>>,
     <<72550, 72550>>, <<72752, 72758>>, <<72760, 72765>>, <<72767, 72767>>,
     <<72850, 72871>>, <<72874, 72880>>, <<72882, 72883>>, <<72885, 72886>>,
     <<73009, 73014>>, <<73018, 73018>>, <<73020, 73021>>, <<73023, 73029>>,
     <<73031, 73031>>, <<73104, 73105>>, <<73109, 73109>>, <<73111, 73111>>,
     <<73177, 73177>>, <<73459, 73460>>, <<73472, 73473>>, <<73526, 73530>>,
     <<73536, 73536>>, <<73538, 73538>>, <<73562, 73562>>, <<78896, 78912>>,
     <<78919, 78933>>, <<90398, 90409>>, <<90413, 90415>>, <<92912, 92916>>,
     <<92976, 92982>>, <<92992, 92995>>, <<93504, 93506>>, <<93547, 93548>>,
     <<94031, 94031>>, <<94095, 94111>>, <<94176, 94177>>, <<94179, 94180>>,
     <<94194, 94195>>, <<110576, 110579>>, <<110581, 110587>>,
     <<110589, 110590>>, <<113821, 113822>>, <<113824, 113827>>,
     <<118528, 118573>>, <<118576, 118598>>, <<119143, 119145>>,
     <<119155, 119170>>, <<119173, 119179>>, <<119210, 119213>>,
     <<119362, 119364>>, <<121344, 121398>>, <<121403, 121452>>,
     <<121461, 121461>>, <<121476, 121476>>, <<121499, 121503>>,
     <<121505, 121519>>, <<122880, 122886>>, <<122888, 122904>>,
     <<122907, 122913>>, <<122915, 122916>>, <<122918, 122922>>,
     <<122928, 122989>>, <<123023, 123023>>, <<123184, 123197>>,
     <<123566, 123566>>, <<123628, 123631>>, <<124139, 124143>>,
     <<124398, 124399>>, <<124643, 124643>>, <<124646, 124646>>,
     <<124654, 124655>>, <<124661, 124661>>, <<124671, 124671>>,
     <<125136, 125142>>, <<125252, 125259>>, <<127995, 127999>>,
     <<917505, 917505>>, <<917536, 917631>>, <<917760, 917999>> >>

InRanges(n, ranges) ==
  \E r \in 1..Len(ranges) : ranges[r][1] <= n /\ n <= ranges[r][2]

\* A cased letter that is not case-ignorable.
Cased(c) ==
  IF IsCodePoint(c) THEN InRanges(CodePoint(c), CasedRanges)
  ELSE \E n \in 1..Len(Upper) : c = Upper[n] \/ c = Lower[n]

CaseIgnorable(c) ==
  IF IsCodePoint(c) THEN InRanges(CodePoint(c), CaseIgnorableRanges)
  ELSE c \in {"'", ".", ":", "^"}

\* The capital sigma at position p of s is final: a cased letter comes before
\* it and none after it, case-ignorable characters being passed over.
FinalSigma(s, p) ==
  LET before == {q \in 1..(p - 1) : ~CaseIgnorable(s[q])}
      after == {q \in (p + 1)..Len(s) : ~CaseIgnorable(s[q])}
  IN /\ before # {}
     /\ Cased(s[CHOOSE q \in before : \A r \in before : r <= q])
     /\ after = {} \/ ~Cased(s[CHOOSE q \in after : \A r \in after : q <= r])

\* The lower case of one character, as a string: U+0130 gives two characters.
LowerOf(c) ==
  IF ~IsCodePoint(c)
  THEN IF \E n \in 1..Len(Upper) : Upper[n] = c
       THEN <<Lower[CHOOSE n \in 1..Len(Upper) : Upper[n] = c]>>
       ELSE <<c>>
  ELSE IF c = "U+0130" THEN <<"i", "U+0307">>
  ELSE LET n == CodePoint(c)
           hits == {r \in 1..Len(LowerCaseRanges) :
                      /\ LowerCaseRanges[r][1] <= n /\ n <= LowerCaseRanges[r][2]
                      /\ (n - LowerCaseRanges[r][1]) % LowerCaseRanges[r][3] = 0}
       IN IF hits = {} THEN <<c>>
          ELSE <<Character(n + LowerCaseRanges[CHOOSE r \in hits : TRUE][4])>>

RECURSIVE Concat(_)
Concat(strings) ==
  IF strings = <<>> THEN <<>> ELSE Head(strings) \o Concat(Tail(strings))

\* String.prototype.toLowerCase
toLowerCase(s) ==
  Concat([p \in 1..Len(s) |->
            IF s[p] = "U+03A3"
            THEN <<IF FinalSigma(s, p) THEN "U+03C2" ELSE "U+03C3">>
            ELSE LowerOf(s[p])])

\* String.prototype.lastIndexOf of one character: its last position, from
\* 0, or -1.
lastIndexOf(s, c) ==
  IF \E p \in 1..Len(s) : s[p] = c
  THEN (CHOOSE p \in 1..Len(s) :
          s[p] = c /\ \A q \in (p + 1)..Len(s) : s[q] # c) - 1
  ELSE 0 - 1

\* String.prototype.substring(start)
substring(s, start) == SubSeq(s, start + 1, Len(s))

\* The truth of a value in a condition: undefined and '' are false.
Truthy(v) == v # Undefined /\ v # <<>>

\* `if (options.keepExtension.startsWith('.'))`: one leading dot is removed.
keepExtension(option) ==
  IF startsWith(option, <<".">>) THEN substring(option, 1) ELSE option

\* Array.prototype.pop, the element it returns.
pop(parts) == parts[Len(parts)]

\* shouldDelete of the selection loop: the name after its last '/' has no
\* extension, or another one than the extension to keep.
shouldDelete(obj, extensionToKeep) ==
  LET baseNameOnly == substring(obj.name, lastIndexOf(obj.name, "/") + 1)
      parts == split(baseNameOnly, ".")
  IN IF Len(parts) > 1
     THEN toLowerCase(pop(parts)) # extensionToKeep
     ELSE TRUE

\* The selection loop of main: what objectsToDeleteWithVersions holds after
\* it, for the listing and options.keepExtension.
RECURSIVE objectsToDeleteWithVersions(_, _)
objectsToDeleteWithVersions(allObjects, option) ==
  IF allObjects = <<>> THEN <<>>
  ELSE LET obj == Head(allObjects)
           rest == objectsToDeleteWithVersions(Tail(allObjects), option)
           extensionToKeep == toLowerCase(option)
       IN IF ~Truthy(obj.name) \/ obj.isDeleteMarker THEN rest
          ELSE IF ~shouldDelete(obj, extensionToKeep) THEN rest
          ELSE IF Truthy(obj.versionId)
          THEN <<[name |-> obj.name, versionId |-> obj.versionId]>> \o rest
          ELSE <<[name |-> obj.name]>> \o rest

\* The object versions a listing can hold.
ObjectVersions ==
  { [name |-> <<"a", ".", "m">>, isDeleteMarker |-> FALSE, versionId |-> Undefined],
    [name |-> <<"a", ".", "M">>, isDeleteMarker |-> FALSE, versionId |-> <<"1">>],
    [name |-> <<"a", ".", "w">>, isDeleteMarker |-> FALSE, versionId |-> <<"1">>],
    [name |-> <<"a", ".", "w">>, isDeleteMarker |-> FALSE, versionId |-> Undefined],
    [name |-> <<"a", ".", "w">>, isDeleteMarker |-> TRUE, versionId |-> <<"2">>],
    [name |-> <<"a">>, isDeleteMarker |-> FALSE, versionId |-> Undefined],
    [name |-> <<"a", ".">>, isDeleteMarker |-> FALSE, versionId |-> Undefined],
    [name |-> <<"d", ".", "m", "/", "a">>, isDeleteMarker |-> FALSE, versionId |-> <<"1">>],
    [name |-> <<"d", ".", "w", "/", "a", ".", "m">>, isDeleteMarker |-> FALSE,
     versionId |-> Undefined],
    [name |-> <<"a", ".", "m", ".", "w">>, isDeleteMarker |-> FALSE, versionId |-> Undefined],
    [name |-> <<"a", ".", "U+00C9">>, isDeleteMarker |-> FALSE, versionId |-> Undefined],
    [name |-> <<"a", ".", "U+A7CB">>, isDeleteMarker |-> FALSE, versionId |-> Undefined],
    [name |-> <<"a", ".", "A", "U+03A3">>, isDeleteMarker |-> FALSE, versionId |-> Undefined],
    [name |-> <<"a", ".", "a", "U+03C3">>, isDeleteMarker |-> FALSE, versionId |-> <<"1">>],
    [name |-> <<>>, isDeleteMarker |-> FALSE, versionId |-> <<"1">>] }

\* The listings of a bucket: no version is listed twice.
Listings ==
  {l \in UNION {[1..n -> ObjectVersions] : n \in 0..MaxObjects} :
     \A m, n \in 1..Len(l) : m # n => l[m] # l[n]}

\* The values given to --keep-extension.
KeepExtensions ==
  { <<"m">>, <<".", "m">>, <<"M">>, <<".", "W">>, <<"U+00E9">>, <<"U+0264">>,
    <<"a", "U+03C3">>, <<"A", "U+03A3">>, <<>> }

\* The script starts: the upload program's variables stay as they are here.
CleanupInit ==
  /\ cleanup \in [pc : {"bucketExists"}, option : KeepExtensions,
                   bucketPresent : BOOLEAN, versions : Listings,
                   allObjects : {<<>>}, removed : {<<>>},
                   removeCalls : {0}, exited : {FALSE}, exitCode : {0}]
  /\ argv = [createBucket |-> FALSE, checkFullKey |-> FALSE, reuploadOnSizeDiff |-> FALSE]
  /\ listing = <<>>
  /\ bucketPresent = cleanup.bucketPresent
  /\ store = {}
  /\ run = 1
  /\ pc = MainOff
  /\ exited = FALSE
  /\ exitCode = 0
  /\ fatal = "none"
  /\ isShuttingDown = FALSE
  /\ bucketObjectKeys = {}
  /\ urls = <<>>
  /\ i = 1
  /\ metadata = <<>>
  /\ child = <<>>
  /\ upload = <<>>
  /\ reports = <<>>
  /\ calls = <<>>
  /\ storeCalls = NoStoreCalls
  /\ sigints = 0
  /\ pending = 0
  /\ intAt = 0
  /\ flagAt = NoFlag
  /\ prev = [ran |-> FALSE, clean |-> FALSE, uploaded |-> FALSE]
  /\ enumeration = "none"

mainVars == <<envVars, procVars, loopVars, xferVars, histVars, sigVars>>

\* process.exit(code) of the script, or its end once main has returned.
CleanupExits(code) == [cleanup EXCEPT !.exited = TRUE, !.exitCode = code]

\* initializeMinioClient of the script: bucketExists answers; a missing
\* bucket or a failing call is thrown and main().catch exits with code 1.
CleanupBucketExists ==
  /\ ~cleanup.exited /\ cleanup.pc = "bucketExists"
  /\ \E ok \in BOOLEAN :
       cleanup' = IF ok /\ cleanup.bucketPresent
                  THEN [cleanup EXCEPT !.pc = "listObjects"]
                  ELSE CleanupExits(1)
  /\ UNCHANGED mainVars

\* getAllObjects fails: main().catch exits with code 1.
GetAllObjectsFails ==
  /\ ~cleanup.exited /\ cleanup.pc = "listObjects"
  /\ cleanup' = CleanupExits(1)
  /\ UNCHANGED mainVars

\* getAllObjects resolves with every version of the listing; main selects
\* the versions to delete and returns when there is none, or calls
\* removeObjects with them.
GetAllObjects ==
  /\ ~cleanup.exited /\ cleanup.pc = "listObjects"
  /\ LET allObjects == cleanup.versions
         selected == objectsToDeleteWithVersions(allObjects,
                                                 keepExtension(cleanup.option))
     IN cleanup' =
          IF Len(selected) = 0
          THEN [cleanup EXCEPT !.allObjects = allObjects, !.pc = "done"]
          ELSE [cleanup EXCEPT !.allObjects = allObjects, !.pc = "removeObjects",
                               !.removed = selected, !.removeCalls = @ + 1]
  /\ UNCHANGED mainVars

\* The version of the bucket that an entry given to removeObjects names.
Names(entry, version) ==
  /\ entry.name = version.name
  /\ IF "versionId" \in DOMAIN entry
     THEN version.versionId = entry.versionId
     ELSE ~Truthy(version.versionId)

\* removeObjects resolves, the versions it was given being gone, or rejects
\* and the catch exits with code 1.
RemoveObjects ==
  /\ ~cleanup.exited /\ cleanup.pc = "removeObjects"
  /\ \E ok \in BOOLEAN :
       cleanup' =
         IF ok
         THEN [cleanup EXCEPT
                 !.pc = "done",
                 !.versions = SelectSeq(@, LAMBDA v :
                    ~\E n \in 1..Len(cleanup.removed) : Names(cleanup.removed[n], v))]
         ELSE CleanupExits(1)
  /\ UNCHANGED mainVars

\* main has returned: the script ends with code 0.
CleanupEnds ==
  /\ ~cleanup.exited /\ cleanup.pc = "done"
  /\ cleanup' = CleanupExits(0)
  /\ UNCHANGED mainVars

CleanupNext ==
  \/ CleanupBucketExists
  \/ GetAllObjectsFails
  \/ GetAllObjects
  \/ RemoveObjects
  \/ CleanupEnds

CleanupSpec == CleanupInit /\ [][CleanupNext]_vars

\* ============================================================ properties
\* The outcomes printed for video k, as a set.
Reported(k) == {reports[k][n] : n \in 1..Len(reports[k])}

\* The streaming child of video k failed: it could not be spawned, or it
\* terminated with a code other than 0.
ChildFailed(k) ==
  child[k].st = "error" \/ (child[k].st = "closed" /\ child[k].code # 0)

\* The putObject call of video k is in flight.
UploadInFlight(k) == upload[k] \in {"pending", "committed"}

\* ------------------------------------------------------------------- C1
\* Video k has its outcome: it was uploaded, or its child or its upload
\* failed.
Resolved(k) ==
  Reported(k) \cap {"uploaded", "extractionFailed", "storeWriteFailed"} # {}

C1_NoLaterItem ==
  intAt # 0 =>
    \A k \in DOMAIN calls :
      k > intAt => calls[k] = NoCalls /\ child[k] = NoChild /\ upload[k] = "none"

C1_ResolvedBeforeStop ==
  (intAt # 0 /\ sigints = 1 /\ (pc = "done" \/ exited)) => Resolved(intAt)

C1_FlagLeavesTransfer ==
  (~isShuttingDown /\ isShuttingDown' /\ pc = "transfer") =>
    UNCHANGED <<pc, i, child, upload, store, exited, reports>>

\* C1: when the first SIGINT sets the shutdown flag while video i is in
\* transfer (child spawned, putObject pending), the step that sets the flag
\* changes nothing of the transfer; unless a second SIGINT comes, the loop
\* stops and the process ends only after video i was uploaded or has failed;
\* and no stage (existence check, probe, child, putObject) is ever started
\* for a video after i.
C1_CancellationBoundary ==
  /\ [](C1_NoLaterItem /\ C1_ResolvedBeforeStop)
  /\ [][C1_FlagLeavesTransfer]_vars

\* ------------------------------------------------------------------- C2
C2_SigintStep ==
  sigints' = sigints + 1 =>
    IF isShuttingDown
    THEN exited' /\ exitCode' # 0 /\ UNCHANGED <<pc, i, child, upload, store>>
    ELSE ~exited'

\* C2: a SIGINT delivered while the shutdown flag is set ends the process at
\* once with a code other than 0, whatever main() is waiting for and without
\* any step of the transfer in flight; a SIGINT delivered while the flag is
\* not set never ends the process.
C2_ForcedExit ==
  /\ [][C2_SigintStep]_vars
  /\ [](exited /\ fatal = "forced" => exitCode # 0 /\ sigints >= 2)

\* ------------------------------------------------------------------- C3
\* C3: a video's child and putObject are started only when, for every
\* earlier video, the child has terminated and putObject has returned; so at
\* most one child is alive and at most one putObject is in flight.
C3_NoPipelining ==
  /\ \A k \in DOMAIN calls :
       calls[k].spawn > 0 =>
         \A j \in 1..(k - 1) : ~Alive(j) /\ ~UploadInFlight(j)
  /\ Cardinality({k \in DOMAIN child : Alive(k)}) <= 1
  /\ Cardinality({k \in DOMAIN upload : UploadInFlight(k)}) <= 1

\* ------------------------------------------------------------------- C4
\* C4: when the streaming child of a video fails (spawn error, or a code
\* other than 0), the video is reported as an extraction failure and never as
\* uploaded, its putObject has not completed, and no truncated object is
\* stored under its key.
C4_ExtractionFailure ==
  \A k \in DOMAIN child :
    ChildFailed(k) =>
      /\ "extractionFailed" \in Reported(k)
      /\ "uploaded" \notin Reported(k)
      /\ upload[k] \notin {"committed", "ok"}
      /\ \A o \in store :
           o.key = s3ObjectKey(urls[k].title, metadata[k]) => ~o.truncated

\* ------------------------------------------------------------------- C5
\* C5: a transfer reports at most one outcome, and a transfer that has
\* resolved reports exactly one: success, extraction failure or store-write
\* failure.
C5_SingleOutcome ==
  \A k \in DOMAIN reports :
    /\ Len(reports[k]) <= 1
    /\ (upload[k] \in {"ok", "failed"} \/ ChildFailed(k)) => Len(reports[k]) = 1

\* ------------------------------------------------------------------- C6
\* C6: when the putObject of a video has failed, the process has exited with
\* code 1 and no child process is running, the video's own child having been
\* killed.
C6_UploadFailure ==
  \A k \in DOMAIN upload :
    upload[k] = "failed" =>
      /\ exited /\ exitCode = 1
      /\ \A j \in DOMAIN child : ~Alive(j)

\* ------------------------------------------------------------------- C7
\* A failure at the level of video k: its probe, its child or its upload.
ItemFailed(k) ==
  "probeFailed" \in Reported(k) \/ ChildFailed(k) \/ upload[k] = "failed"

C7_ExitOnFailure ==
  \A k \in DOMAIN calls : ItemFailed(k) => exited /\ exitCode = 1

C7_NoRetry ==
  \A k \in DOMAIN calls :
    calls[k].reconcile <= 1 /\ calls[k].probe <= 1
      /\ calls[k].spawn <= 1 /\ calls[k].put <= 1

C7_NoLaterItem ==
  \A k \in DOMAIN calls :
    ItemFailed(k) =>
      \A j \in DOMAIN calls :
        j > k => calls[j] = NoCalls /\ child[j] = NoChild /\ upload[j] = "none"

\* C7: as soon as a video fails (its probe, its child or its upload), the
\* process has exited with code 1; no stage of a video is started twice; no
\* stage (existence check, probe, child, putObject) was started for a video
\* after the failing one; and once the process has exited with code 1
\* nothing more is checked, probed or transferred in that run.
C7_FailFast ==
  /\ [](C7_ExitOnFailure /\ C7_NoRetry /\ C7_NoLaterItem)
  /\ [][(exited /\ exitCode = 1 /\ run' = run)
          => UNCHANGED <<calls, child, upload, store, i>>]_vars

\* ------------------------------------------------------------------- C8
\* The existence check of video k has answered.
Decided(k) == "skipped" \in Reported(k) \/ calls[k].probe > 0

\* The match of the claim: in prefix mode a key that starts with the base
\* key, in full-key mode the key base key + '.' + extension.
ClaimedMatch(key, k) ==
  IF argv.checkFullKey
  THEN \E out \in ProbeOutputs(urls[k].videoUrl) :
         key = s3ObjectKey(urls[k].title, getMetadata(out))
  ELSE startsWith(key, urls[k].title)

\* C8: a video goes on to the upload if and only if no key of the snapshot
\* matches its base key under the active matching mode.
C8_MatchRule ==
  \A k \in DOMAIN urls :
    Decided(k) =>
      (calls[k].probe > 0 <=> ~\E key \in bucketObjectKeys : ClaimedMatch(key, k))

\* ------------------------------------------------------------------- C9
\* The size the probe expects for video k differs from the size of a stored
\* object that matches it, and is not 0.
SizeDiffers(k) ==
  \E o \in store, out \in ProbeOutputs(urls[k].videoUrl) :
    /\ isObjectInBucket({o.key}, urls[k].title)
    /\ getMetadata(out).filesize # 0
    /\ getMetadata(out).filesize # o.size

\* C9: a run asked to re-upload on a size difference is a run of the
\* pipeline, and every video whose key matches an existing object is
\* re-uploaded when reuploadOnSizeDiff is set, the sizes differ and the
\* expected size is not 0, and is skipped otherwise.
C9_ReuploadDecision ==
  /\ (argv.reuploadOnSizeDiff /\ ~argv.checkFullKey) => fatal # "unknownOption"
  /\ \A k \in DOMAIN urls :
       (Decided(k) /\ isObjectInBucket(bucketObjectKeys, urls[k].title)) =>
         IF argv.reuploadOnSizeDiff /\ SizeDiffers(k)
         THEN calls[k].put > 0
         ELSE reports[k] = <<"skipped">> /\ calls[k].put = 0

\* ------------------------------------------------------------------ C10
\* C10: in a run that follows a run over the same source in which every
\* video was skipped or uploaded, with the bucket as that run left it, no
\* probe is made, no child is spawned, putObject is never called, and every
\* video that is checked is skipped.
C10_Idempotence ==
  (prev.ran /\ prev.clean) =>
    /\ storeCalls.putObject = 0
    /\ \A k \in DOMAIN calls :
         /\ calls[k].probe = 0 /\ calls[k].spawn = 0 /\ calls[k].put = 0
         /\ Decided(k) => reports[k] = <<"skipped">>

\* A run in which a video was uploaded is followed by a run that skipped
\* every video and came to its end.
C10_Witness ==
  /\ prev.ran /\ prev.clean /\ prev.uploaded
  /\ pc = "done" /\ ~isShuttingDown
  /\ \A k \in DOMAIN urls : reports[k] = <<"skipped">>

\* ------------------------------------------------------------------ C11
\* The probe of video k has answered with the metadata.
Probed(k) ==
  calls[k].probe > 0 /\ ~(pc = "probe" /\ i = k) /\ "probeFailed" \notin Reported(k)

\* The key the claim gives the object of video k: its base key, a dot and the
\* extension of the video's format.
ClaimedKeys(k) ==
  {toJsString(urls[k].title) \o <<".">> \o e.ext :
     e \in {d \in Entries : d.url = urls[k].videoUrl}}

\* C11: a video whose base key the existence check finds in the snapshot is
\* skipped with no probe, no child and no putObject; a video it does not find
\* is probed exactly once, and once the probe has answered exactly one child
\* is spawned and putObject is called exactly once, the object it stores
\* having the key base key + '.' + the probed extension.
C11_StageCounts ==
  \A k \in DOMAIN urls :
    Decided(k) =>
      IF isObjectInBucket(bucketObjectKeys, urls[k].title)
      THEN /\ calls[k].probe = 0 /\ calls[k].spawn = 0 /\ calls[k].put = 0
           /\ reports[k] = <<"skipped">>
      ELSE /\ calls[k].probe = 1
           /\ "skipped" \notin Reported(k)
           /\ calls[k].spawn = (IF Probed(k) THEN 1 ELSE 0)
           /\ calls[k].put = calls[k].spawn
           /\ upload[k] \in {"committed", "ok"} =>
                \E o \in store : o.key \in ClaimedKeys(k)

\* Of two videos, the first had no match, was probed and uploaded under its
\* key, and the second had a match and was skipped.
C11_Witness ==
  /\ Len(urls) = 2 /\ pc = "done"
  /\ reports[1] = <<"uploaded">> /\ calls[1].probe = 1 /\ calls[1].put = 1
  /\ \E o \in store : o.key = <<"a", "b", ".", "w">>
  /\ reports[2] = <<"skipped">> /\ calls[2].probe = 0

\* ------------------------------------------------------------------ C12
\* C12: when the listing succeeds and prints nothing, no video is checked,
\* probed or transferred, the store is not called after the bucket check, and
\* the process does not end with a code other than 0.
C12_EmptySource ==
  (enumeration = "listed" /\ trim(listing) = <<>>) =>
    /\ \A k \in DOMAIN calls : calls[k] = NoCalls
    /\ storeCalls.listObjects = 0 /\ storeCalls.putObject = 0
    /\ (exited /\ fatal # "forced") => exitCode = 0

\* ------------------------------------------------------------------ C13
\* C13: when the listing ends with a code other than 0, the process has
\* exited with a code other than 0 and there is no video to process.
C13_EnumerationFatal ==
  enumeration = "failed" => exited /\ exitCode # 0 /\ urls = <<>>

\* ------------------------------------------------------------------ C14
C14_MissingBucketAborts ==
  /\ fatal = "bucketMissing" =>
       /\ exited /\ exitCode = 1
       /\ ~bucketPresent /\ ~argv.createBucket
       /\ storeCalls.makeBucket = 0 /\ storeCalls.listObjects = 0
       /\ enumeration = "none" /\ urls = <<>>
  /\ (~bucketPresent /\ ~argv.createBucket) =>
       /\ pc \in {"parse", "validate", "bucketExists"}
       /\ storeCalls.listObjects = 0 /\ enumeration = "none"

C14_CreatedOnce ==
  /\ storeCalls.makeBucket <= 1
  /\ pc \in {"listObjects", "enumerate", "loop", "exists", "probe", "transfer", "done"}
       => bucketPresent

C14_CreateStep ==
  /\ storeCalls'.makeBucket # storeCalls.makeBucket /\ run' = run =>
       /\ ~bucketPresent /\ argv.createBucket
       /\ storeCalls.makeBucket = 0 /\ storeCalls'.makeBucket = 1
       /\ ~exited'
  /\ (~bucketPresent /\ ~argv.createBucket /\ pc = "bucketExists" /\ ~exited
        /\ sigints' = sigints) =>
       exited' /\ exitCode' = 1

\* C14: a run whose bucket does not exist and that was not asked to create
\* it exits with code 1 at the bucket check, before the bucket is listed and
\* the source enumerated; makeBucket is called only when the bucket does not
\* exist and its creation was asked for, at most once a run, and the run goes
\* on past the bucket check only with the bucket there.
C14_BucketPrecondition ==
  /\ [](C14_MissingBucketAborts /\ C14_CreatedOnce)
  /\ [][C14_CreateStep]_vars

\* The bucket did not exist, was created on request by the one makeBucket
\* call, and the run went on to upload a video.
C14_Witness ==
  /\ run = 1 /\ argv.createBucket /\ bucketPresent
  /\ storeCalls.makeBucket = 1
  /\ \E k \in DOMAIN urls : reports[k] = <<"uploaded">>

\* ------------------------------------------------------------------ C15
\* The fatal conditions of the startup.
FatalConditions ==
  {"unknownOption", "ytdlpNotFound", "storeUnavailable", "bucketMissing", "uncaughtError"}

\* The failures at the level of a video.
ItemFailures == {"probeFailed", "extractionFailed", "storeWriteFailed"}

C15_ZeroWithoutFailure ==
  (exited /\ enumeration \in {"listed", "failed"} /\ sigints <= 1
     /\ \A k \in DOMAIN urls : ~ItemFailed(k)) => exitCode = 0

C15_NonZeroOnlyAfter ==
  (exited /\ exitCode # 0) =>
    /\ fatal \in FatalConditions \cup ItemFailures \cup {"forced"}
    /\ fatal \in FatalConditions => urls = <<>>
    /\ fatal \in ItemFailures => \E k \in DOMAIN urls : ItemFailed(k)
    /\ fatal = "forced" => sigints >= 2

\* C15: a run that has enumerated its source, in which no video failed and
\* no second SIGINT came, ends only with code 0, also when it stopped at the
\* shutdown flag after the video in flight was uploaded; and a run that ended
\* with another code had a fatal condition at startup, a failure of a video or
\* a second SIGINT.
C15_ZeroExitStatus == C15_ZeroWithoutFailure /\ C15_NonZeroOnlyAfter

\* ------------------------------------------------------------------ C17
C17_NoLaterItem ==
  flagAt.pc \in {"exists", "probe"} =>
    \A k \in DOMAIN calls :
      k > flagAt.i => calls[k] = NoCalls /\ child[k] = NoChild

C17_ItemNotStopped ==
  flagAt.pc \in {"exists", "probe"} /\ pc = "done" =>
    LET k == flagAt.i
    IN \/ reports[k] = <<"skipped">> /\ flagAt.pc = "exists"
       \/ calls[k].probe = 1 /\ calls[k].spawn = 1 /\ calls[k].put = 1
            /\ "uploaded" \in Reported(k)

C17_FlagStep ==
  run' = run =>
    /\ (sigints = 0 /\ sigints' = 1) => UNCHANGED <<pc, i, calls, reports, child, upload>>
    /\ (pc' = "done" /\ pc # "done") => pc = "loop"
    /\ (pc = "loop" /\ pc' # pc /\ isShuttingDown) => pc' = "done" /\ UNCHANGED calls
    /\ (calls' # calls /\ pc # "enumerate") =>
         \/ pc = "loop" /\ ~isShuttingDown /\ calls'[i].reconcile = calls[i].reconcile + 1
         \/ pc \in {"exists", "probe"} /\ calls'[i].reconcile = calls[i].reconcile

\* C17: the loop leaves for its end only from the head of an iteration, where
\* a set flag always ends it and a video is checked only with the flag not
\* set; a first SIGINT delivered during the existence check or the probe of
\* video i changes nothing of that video, which is skipped or else probed and
\* transferred before the loop ends, and no stage of a later video is started.
C17_FlagAtBoundary ==
  /\ [](C17_NoLaterItem /\ C17_ItemNotStopped)
  /\ [][C17_FlagStep]_vars

\* ------------------------------------------------------------------ C18
\* A step in which the SIGINT handler runs: for the signal this step
\* delivers, or for one that waited.
HandlerRuns ==
  /\ HandlerInstalled
  /\ \/ sigints' = sigints + 1 /\ pending' = pending
     \/ pending' = pending - 1

C18_FlagStep ==
  (isShuttingDown' # isShuttingDown /\ run' = run) =>
    ~isShuttingDown /\ isShuttingDown' /\ HandlerRuns

\* C18: the flag is false when the process starts, and until a SIGINT was
\* delivered to a process that has installed the handler; within a run only
\* a step of the SIGINT handler changes it, and only from false to true, so
\* that no step of the loop resets it.
C18_FlagMonotonic ==
  /\ [](isShuttingDown => sigints > 0 /\ HandlerInstalled)
  /\ [][C18_FlagStep]_vars

\* A SIGINT came during startup; the flag was still set when the loop ended
\* at its first check and the process exited.
C18_Witness ==
  /\ isShuttingDown /\ flagAt.pc = "validate" /\ sigints = 1
  /\ pc = "done" /\ exited /\ Len(urls) = 2
  /\ calls[1] = NoCalls

\* ------------------------------------------------------------------ C19
C19_SnapshotStep ==
  (bucketObjectKeys' # bucketObjectKeys /\ run' = run) =>
    pc = "listObjects" /\ enumeration = "none" /\ storeCalls.listObjects = 1

C19_SameDecision ==
  \A j, k \in DOMAIN urls :
    (j < k /\ urls[j].title = urls[k].title /\ Decided(j) /\ Decided(k)) =>
      ("skipped" \in Reported(j) <=> "skipped" \in Reported(k))

\* C19: the snapshot of the bucket's keys is assigned by the one listing made
\* before the enumeration and by no step after it, and two videos of a run
\* with the same base key get the same answer from the existence check, also
\* when the first of them has been uploaded in between.
C19_SnapshotFrozen ==
  /\ [](storeCalls.listObjects <= 1 /\ C19_SameDecision)
  /\ [][C19_SnapshotStep]_vars

\* Two videos with the same base key and an empty bucket: the first was
\* uploaded and its object is in the bucket, the snapshot is still empty, and
\* the second was not skipped but uploaded too.
C19_Witness ==
  /\ Len(urls) = 2 /\ urls[1].title = urls[2].title
  /\ bucketObjectKeys = {}
  /\ reports[1] = <<"uploaded">> /\ reports[2] = <<"uploaded">>
  /\ \E o \in store : isObjectInBucket({o.key}, urls[2].title)

\* ------------------------------------------------------------------ C20
\* C20: the upload is the only listener of the 'data' events of a child's
\* standard output, and the body of an upload that the store has committed
\* is the chunks the child wrote, each once and in order.
C20_ExclusiveStream ==
  \A k \in DOMAIN child :
    /\ child[k].listeners \subseteq {"upload"}
    /\ upload[k] \in {"committed", "ok"} => child[k].received = child[k].sent

\* ------------------------------------------------------------------ C16
\* The base name of an object name: the text after its last '/'.
BaseName(name) ==
  LET slashes == {p \in 1..Len(name) : name[p] = "/"}
  IN IF slashes = {} THEN name
     ELSE SubSeq(name, (CHOOSE p \in slashes : \A q \in slashes : q <= p) + 1, Len(name))

\* The text after the last '.' of a name that has one.
AfterLastDot(name) ==
  LET dots == {p \in 1..Len(name) : name[p] = "."}
  IN SubSeq(name, (CHOOSE p \in dots : \A q \in dots : q <= p) + 1, Len(name))

\* The letter a character stands for, whatever its case: its lower case by
\* itself, the capital sigma and the final small sigma being the letter
\* sigma wherever they stand.
Letter(c) ==
  IF c \in {"U+03A3", "U+03C2"} THEN <<"U+03C3">> ELSE LowerOf(c)

\* Two texts that differ at most in the case of their letters.
SameIgnoringCase(a, b) ==
  Concat([p \in 1..Len(a) |-> Letter(a[p])])
    = Concat([p \in 1..Len(b) |-> Letter(b[p])])

\* The keep-extension E of the claim: the option without its leading dot.
ClaimedKeep(option) ==
  IF option # <<>> /\ Head(option) = "." THEN Tail(option) ELSE option

\* The versions the claim selects from a listing, as removeObjects takes them.
ClaimedSelection(versions, option) ==
  { IF v.versionId # Undefined
    THEN [name |-> v.name, versionId |-> v.versionId]
    ELSE [name |-> v.name] :
    v \in { versions[n] : n \in
             { m \in 1..Len(versions) :
                 /\ versions[m].name # <<>>
                 /\ ~versions[m].isDeleteMarker
                 /\ LET base == BaseName(versions[m].name)
                    IN \/ ~\E p \in 1..Len(base) : base[p] = "."
                       \/ ~SameIgnoringCase(AfterLastDot(base), ClaimedKeep(option)) } } }

\* C16: once the script has listed the bucket, removeObjects has been called
\* exactly when the claim's selection from that listing is not empty, at most
\* once, and the entries it was given are exactly that selection.
C16_CleanupSelection ==
  cleanup.pc \in {"removeObjects", "done"} =>
    LET selection == ClaimedSelection(cleanup.allObjects, cleanup.option)
    IN /\ cleanup.removeCalls = (IF selection = {} THEN 0 ELSE 1)
       /\ {cleanup.removed[n] : n \in 1..Len(cleanup.removed)} = selection
       /\ Len(cleanup.removed) = Cardinality(selection)

\* ------------------------------------------------------------------ C21
\* The number of lines the listing printed.
OutputLines == Cardinality({p \in 1..Len(listing) : listing[p] = "\n"})

\* C21: when the listing has succeeded, an output whose number of lines is
\* not a multiple of two has made the run fail with no video produced, and
\* every video produced has a URL and a file name.
C21_RecordValidation ==
  enumeration = "listed" =>
    /\ OutputLines % 2 # 0 => urls = <<>> /\ exited /\ exitCode # 0
    /\ \A k \in DOMAIN urls :
         urls[k].title # Undefined /\ urls[k].videoUrl # <<>>

\* ------------------------------------------------------------------ C22
\* The text t occurs in the text key, at any position.
Contains(key, t) ==
  \E p \in 0..(Len(key) - Len(t)) : \A q \in 1..Len(t) : key[p + q] = t[q]

\* C22: a video whose existence check has answered was skipped if and only
\* if some key of the snapshot contains its base key at some position, and a
\* skipped video is not probed and not transferred.
C22_SubstringMatch ==
  \A k \in DOMAIN urls :
    Decided(k) =>
      /\ "skipped" \in Reported(k) <=>
           \E key \in bucketObjectKeys : Contains(key, toJsString(urls[k].title))
      /\ "skipped" \in Reported(k) =>
           calls[k].probe = 0 /\ calls[k].spawn = 0 /\ calls[k].put = 0

\* The bucket holds d/ab: the video with base key ab was skipped without a
\* probe, though no key starts with ab.
C22_Witness ==
  /\ bucketObjectKeys = {<<"d", "/", "a", "b">>}
  /\ \E k \in DOMAIN urls :
       /\ urls[k].title = <<"a", "b">>
       /\ reports[k] = <<"skipped">> /\ calls[k].probe = 0

\* ------------------------------------------------------------------ C23
C23_Bounded ==
  /\ i >= 1 /\ i <= Len(urls) + 1
  /\ \A k \in DOMAIN calls :
       /\ calls[k].reconcile <= 1 /\ calls[k].spawn <= 1 /\ calls[k].put <= 1
       /\ k > i => calls[k] = NoCalls
       /\ k < i => calls[k].reconcile = 1

C23_IndexStep ==
  run' = run =>
    /\ i' >= i
    /\ i' # i => i' = i + 1 /\ pc \in {"exists", "transfer"} /\ pc' = "loop"
    /\ (pc \in {"exists", "transfer"} /\ pc' = "loop") => i' = i + 1
    /\ \A k \in DOMAIN calls :
         (k \in DOMAIN calls' /\ calls'[k] # calls[k]) => k = i

\* C23: with every awaited call answering, a run that has not ended does
\* end; the loop index never decreases and grows by one at each return to the
\* loop head, no video before the index is left unchecked and none after it
\* is touched, no video is checked or transferred twice, and the index never
\* passes the number of videos by more than one.
C23_Termination ==
  /\ []C23_Bounded
  /\ [][C23_IndexStep]_vars
  /\ (~exited ~> exited)

\* A run of two videos, one uploaded and one skipped, ended after its second
\* iteration.
C23_Witness ==
  /\ exited /\ exitCode = 0 /\ pc = "done" /\ sigints = 0
  /\ Len(urls) = 2 /\ i = 3
  /\ calls[1].reconcile = 1 /\ calls[2].reconcile = 1
  /\ reports[1] = <<"uploaded">> /\ reports[2] = <<"skipped">>

====
